---- MODULE Spec2Model ----
(***************************************************************************)
(* Model of nifty_52w_high_detector.py (class Nifty100WeeklyHighDetector). *)
(*                                                                         *)
(* Dates are proleptic Gregorian ordinals (date.toordinal()), so that      *)
(* timedelta arithmetic is integer arithmetic and date.weekday() is        *)
(* (ordinal + 6) % 7.  Prices are integers in hundredths of a rupee, so    *)
(* that round(x, 2) leaves them unchanged; the tolerance is an integer     *)
(* number of thousandths and the comparison                                *)
(*     current_high >= week_52_high * (1 - tolerance)                      *)
(* is computed exactly, cross-multiplied by TolScale.                      *)
(***************************************************************************)
EXTENDS Integers, Sequences, FiniteSets, TLC

VARIABLES
    pc,             \* position of the running entry point
    today,          \* datetime.now().date()
    weeks_back,     \* argument of get_week_dates / scan_weekly_highs
    week,           \* value returned by get_week_dates
    ticker_data,    \* is_52_week_high: argument
    current_high,   \* is_52_week_high: argument
    check_date,     \* is_52_week_high: argument
    tolerance,      \* is_52_week_high: argument, in thousandths
    verdict,        \* value returned by is_52_week_high
    market,         \* what the data provider holds for each ticker
    idx,            \* number of tickers the running loop has consumed
    results,        \* scan_weekly_highs: list of result records
    success_count,  \* scan_weekly_highs
    error_count,    \* scan_weekly_highs
    results_df,     \* scan_weekly_highs: returned frame (list of rows)
    threshold_percent, \* get_near_52w_high_stocks: argument, in tenths of a percent
    near_high_stocks   \* get_near_52w_high_stocks: list of result records

vars == <<pc, today, weeks_back, week, ticker_data, current_high, check_date,
          tolerance, verdict, market, idx, results, success_count,
          error_count, results_df, threshold_percent, near_high_stocks>>

\* Python's None (no price, date or count of the model is negative)
None == -1
\* float('nan') in a Volume cell, on which int() raises (no volume is negative)
NaN == -2

(***************************************************************************)
(* Bounds of the model.                                                    *)
(***************************************************************************)
\* first value of today that is explored (2025-09-26, a Friday)
Today0 == 739520
\* get_week_dates is explored for today in Today0 .. Today0 + MaxTodaySpan
MaxTodaySpan == 13
\* get_week_dates is explored for weeks_back in 0 .. MaxWeeksBack
MaxWeeksBack == 4
\* the scan is explored for today in Today0 .. Today0 + MaxScanSpan
MaxScanSpan == 0
\* the scan is explored for weeks_back in 0 .. MaxScanWeeksBack
MaxScanWeeksBack == 1
\* is_52_week_high is explored for tolerance in 0 .. MaxTol thousandths
MaxTol == 2

(***************************************************************************)
(* Program constants.                                                      *)
(***************************************************************************)
\* number of entries of self.nifty100_stocks after the [:100] slice
NumStocks == 100
\* batch_size
BatchSize == 10
\* timedelta(days=365): length of the trailing window
WindowDays == 365
\* minimum number of bars of the trailing window
MinBars == 200
\* timedelta(days=400): history buffer fetched before the week
HistBufferDays == 400
\* default tolerance=0.001, in thousandths
DefaultTol == 1
\* scale of the tolerance: thousandths
TolScale == 1000
\* self.nifty100_with_ns[:20]
DemoLimit == 20

(***************************************************************************)
(* Dates.                                                                  *)
(***************************************************************************)
\* date.weekday(): Monday = 0 ... Sunday = 6
weekday(d) == (d + 6) % 7

\* faulty variant of get_week_dates: Friday computed from this week's Monday
get_week_dates_ThisFriday(t, wb) ==
    LET days_since_monday == weekday(t)
        this_monday == t - days_since_monday
        target_monday == this_monday - 7 * wb
        target_friday == this_monday + 4
    IN  <<target_monday, target_friday>>

\* get_week_dates(weeks_back) with today = t
get_week_dates(t, wb) ==
    LET days_since_monday == weekday(t)
        this_monday == t - days_since_monday
        target_monday == this_monday - 7 * wb
        target_friday == target_monday + 4
    IN  <<target_monday, target_friday>>

(***************************************************************************)
(* Frames: rows is a sequence of bars in the provider's order (ascending   *)
(* date).                                                                  *)
(***************************************************************************)
Max(S) == CHOOSE x \in S : \A y \in S : y <= x

\* the rows of frame whose index date lies in [lo, hi] (boolean-mask filter)
between(frame, lo, hi) ==
    SelectSeq(frame, LAMBDA b : b.date >= lo /\ b.date <= hi)

\* Series.max() of the High column
HighMax(frame) == Max({frame[i].High : i \in DOMAIN frame})

\* Series.idxmax() of the High column: the label of the first row holding the maximum
HighIdxMax(frame) ==
    LET m == HighMax(frame)
        i == CHOOSE k \in DOMAIN frame :
                 /\ frame[k].High = m
                 /\ \A j \in 1 .. (k - 1) : frame[j].High # m
    IN  frame[i].date

\* faulty variant of trailing_window: the window stops the day before check_date
trailing_window_Exclusive(data, cd) ==
    between(data, cd - WindowDays, cd - 1)

\* historical_data of is_52_week_high
trailing_window(data, cd) ==
    LET end_date == cd
        start_date == end_date - WindowDays
    IN  between(data, start_date, cd)

\* faulty variant of is_high_test: strict comparison
is_high_test_Strict(cur, week_52_high, tol) ==
    cur * TolScale > week_52_high * (TolScale - tol)

\* current_high >= (week_52_high * (1 - tolerance))
is_high_test(cur, week_52_high, tol) ==
    cur * TolScale >= week_52_high * (TolScale - tol)

\* faulty variant of is_52_week_high: idxmax replaced by the last row holding the maximum
is_52_week_high_LastMax(data, cur, cd, tol) ==
    IF ~data.dated THEN <<FALSE, None, None>>
    ELSE
    LET historical_data == trailing_window(data.rows, cd)
    IN  IF Len(historical_data) < MinBars THEN <<FALSE, None, None>>
        ELSE LET week_52_high == HighMax(historical_data)
                 last == Max({i \in DOMAIN historical_data :
                                  historical_data[i].High = week_52_high})
             IN  <<is_high_test(cur, week_52_high, tol), week_52_high,
                   historical_data[last].date>>

\* faulty variant of is_52_week_high: the minimum-history test is off by one
is_52_week_high_OffByOne(data, cur, cd, tol) ==
    IF ~data.dated THEN <<FALSE, None, None>>
    ELSE
    LET historical_data == trailing_window(data.rows, cd)
    IN  IF Len(historical_data) < MinBars - 1 THEN <<FALSE, None, None>>
        ELSE LET week_52_high == HighMax(historical_data)
                 week_52_high_date == HighIdxMax(historical_data)
             IN  <<is_high_test(cur, week_52_high, tol), week_52_high,
                   week_52_high_date>>

\* is_52_week_high(ticker_data, current_high, check_date, tolerance).
\* A frame is [dated, rows]: on a frame without a date index (dated = FALSE)
\* the filter raises and the except branch returns (False, None, None).
is_52_week_high(data, cur, cd, tol) ==
    IF ~data.dated THEN <<FALSE, None, None>>
    ELSE
    LET historical_data == trailing_window(data.rows, cd)
    IN  IF Len(historical_data) < MinBars THEN <<FALSE, None, None>>
        ELSE LET week_52_high == HighMax(historical_data)
                 week_52_high_date == HighIdxMax(historical_data)
                 is_high == is_high_test(cur, week_52_high, tol)
             IN  <<is_high, week_52_high, week_52_high_date>>

(***************************************************************************)
(* The data provider.  A stock descriptor says what yfinance holds for a   *)
(* ticker: kind "raise" (history() raises), "empty" (no rows), or "series".*)
(* A series has bars from Anchor - listed on: up to Anchor + histend - 1   *)
(* the bars of its history (every calendar day if daily, Monday to Friday  *)
(* otherwise) with High = base, except High = peakval on Anchor - peakago  *)
(* when peakago > 0;                                                       *)
(* then the bars of the anchor week, one for each k in histend .. 4 with   *)
(* week[k + 1] > 0, with High = week[k + 1].  Volume is NaN on             *)
(* Anchor + nanvol.                                                        *)
(***************************************************************************)
\* Monday of the week of Today0
Anchor == Today0 - weekday(Today0)

HasBar(s, d) ==
    /\ d >= Anchor - s.listed
    /\ IF d < Anchor + s.histend
       THEN s.daily \/ weekday(d) < 5
       ELSE d <= Anchor + 4 /\ s.week[d - Anchor + 1] > 0

BarAt(s, d) ==
    LET h == IF d >= Anchor + s.histend THEN s.week[d - Anchor + 1]
             ELSE IF s.peakago > 0 /\ d = Anchor - s.peakago THEN s.peakval
             ELSE s.base
    IN  [date |-> d, High |-> h, Low |-> h - 200, Close |-> h - 50,
         Volume |-> IF d = Anchor + s.nanvol THEN NaN ELSE 1000]

\* stock.history(start=start, end=end, interval="1d"): the bars with
\* start <= date < end, ascending
history(s, start, end) ==
    IF s.kind # "series" THEN <<>>
    ELSE LET first == IF start > Anchor - s.listed THEN start
                      ELSE Anchor - s.listed
             calendar == [i \in 1 .. (end - first) |-> first + i - 1]
             dates == SelectSeq(calendar, LAMBDA d : HasBar(s, d))
         IN  [i \in DOMAIN dates |-> BarAt(s, dates[i])]

Raises == [kind |-> "raise"]
Empty == [kind |-> "empty"]

Series(listed, daily, histend, peakago, peakval, wk, nanvol) ==
    [kind |-> "series", listed |-> listed, daily |-> daily,
     histend |-> histend, base |-> 10000, peakago |-> peakago,
     peakval |-> peakval, week |-> wk, nanvol |-> nanvol]

\* long history, every day of the week below the tolerance band
Quiet == Series(400, FALSE, 0, 0, 0, <<9989, 9989, 9989, 9989, 9989>>, 9)
\* long history, Tuesday on the band's edge, three later days above it
ThreeHighs == Series(400, FALSE, 0, 0, 0, <<9989, 9990, 10500, 10200, 10600>>, 9)
\* long history, Wednesday the first day of the week above the band
WedHigh == Series(400, FALSE, 0, 0, 0, <<9000, 9000, 10500, 10200, 9000>>, 9)
\* listed 277 days before the week: 198 bars on Monday, 200 on Wednesday
Young == Series(277, FALSE, 0, 0, 0, <<10500, 9000, 10400, 10500, 9000>>, 9)
\* listed 70 days before the week: never 200 bars
Newborn == Series(70, FALSE, 0, 0, 0, <<10100, 10200, 10300, 10400, 10500>>, 9)
\* listed 14 days before the week
Fresh == Series(14, FALSE, 0, 0, 0, <<10100, 10200, 10300, 10400, 10500>>, 9)
\* a peak 370 days before the week, outside Monday's window
OldPeak == Series(400, FALSE, 0, 370, 12000, <<10000, 9000, 10500, 9000, 9000>>, 9)
\* a peak 100 days before the week, inside every window
RecentPeak == Series(400, FALSE, 0, 100, 12000, <<10500, 10500, 10500, 10500, 10500>>, 9)
\* Volume is NaN on Wednesday, the first day above the band
NanVolume == Series(400, FALSE, 0, 0, 0, <<9000, 9000, 10500, 10200, 9000>>, 2)
\* highs flat at 100.00 on each of the 300 days up to Tuesday, 105.00 on
\* Wednesday, 102.00 on Thursday
FlatThenWed == Series(298, TRUE, 2, 0, 0, <<0, 0, 10500, 10200, 0>>, 9)
\* highs flat at 100.00 on each of the 300 days up to Sunday, no bar on
\* Monday and Tuesday, 105.00 on Wednesday, 102.00 on Thursday
FlatGapWed == Series(300, TRUE, 0, 0, 0, <<0, 0, 10500, 10200, 0>>, 9)

(***************************************************************************)
(* get_week_dates alone.                                                   *)
(***************************************************************************)
Idle ==
    /\ ticker_data = None /\ current_high = 0 /\ check_date = 0
    /\ tolerance = 0 /\ verdict = None /\ market = None /\ idx = 0
    /\ results = <<>> /\ success_count = 0 /\ error_count = 0
    /\ results_df = None /\ threshold_percent = 0 /\ near_high_stocks = <<>>

InitWeek ==
    /\ pc = "week_call"
    /\ today \in Today0 .. (Today0 + MaxTodaySpan)
    /\ weeks_back \in 0 .. MaxWeeksBack
    /\ week = None
    /\ Idle

GetWeekDates ==
    /\ pc = "week_call"
    /\ week' = get_week_dates(today, weeks_back)
    /\ pc' = "week_done"
    /\ UNCHANGED <<today, weeks_back, ticker_data, current_high, check_date,
                   tolerance, verdict, market, idx, results, success_count,
                   error_count, results_df, threshold_percent, near_high_stocks>>

NextWeek == GetWeekDates

SpecWeek == InitWeek /\ [][NextWeek]_vars

(***************************************************************************)
(* is_52_week_high alone.                                                  *)
(***************************************************************************)
DetStocks == {ThreeHighs, WedHigh, Young, Newborn, OldPeak, RecentPeak, FlatThenWed}
DetDates == {Anchor - 7, Anchor - 5, Anchor - 4, Anchor, Anchor + 1,
             Anchor + 2, Anchor + 3}
DetHighs == {9980, 9989, 9990, 10000, 10479, 10500, 12000}

InitDet ==
    /\ pc = "det_call"
    /\ today = Today0 /\ weeks_back = 0 /\ week = None
    /\ \E s \in DetStocks, dated \in BOOLEAN :
          ticker_data = [dated |-> dated,
                         rows |-> history(s, Anchor - HistBufferDays, Anchor + 5)]
    /\ current_high \in DetHighs
    /\ check_date \in DetDates
    /\ tolerance \in 0 .. MaxTol
    /\ verdict = None
    /\ market = None /\ idx = 0
    /\ results = <<>> /\ success_count = 0 /\ error_count = 0
    /\ results_df = None /\ threshold_percent = 0 /\ near_high_stocks = <<>>

Is52WeekHigh ==
    /\ pc = "det_call"
    /\ verdict' = is_52_week_high(ticker_data, current_high, check_date, tolerance)
    /\ pc' = "det_done"
    /\ UNCHANGED <<today, weeks_back, week, ticker_data, current_high,
                   check_date, tolerance, market, idx, results, success_count,
                   error_count, results_df, threshold_percent, near_high_stocks>>

NextDet == Is52WeekHigh

SpecDet == InitDet /\ [][NextDet]_vars

(***************************************************************************)
(* scan_weekly_highs.  A ticker is modelled by its position in              *)
(* self.nifty100_with_ns; the list is in ascending string order, so the    *)
(* order of two positions is the order of the two Stock names.             *)
(***************************************************************************)
nifty100_with_ns == 1 .. NumStocks

\* the ticker the nested batch loops reach after n tickers have been consumed
BatchTicker(n) ==
    LET total_batches == (NumStocks + BatchSize - 1) \div BatchSize
        batch_num == n \div BatchSize
        start_idx == batch_num * BatchSize
        end_idx == IF start_idx + BatchSize < NumStocks
                   THEN start_idx + BatchSize ELSE NumStocks
        ticker == start_idx + (n % BatchSize) + 1
    IN  IF batch_num < total_batches /\ ticker <= end_idx THEN ticker ELSE None

\* the record appended to results (Day_Change_% is left out: no division
\* by a float raises, and nothing reads the value)
HighRecord(ticker, row, week_52_high, high_date) ==
    [Stock |-> ticker,
     Date |-> row.date,
     High |-> row.High,
     Close |-> row.Close,
     Volume |-> row.Volume,
     W52_High |-> week_52_high,
     Previous_High_Date |-> high_date,
     Days_Since_Prev_High |-> row.date - high_date,
     New_High |-> IF row.High > week_52_high THEN "Yes" ELSE "Matched"]

RECURSIVE WeekLoop_NoBreak(_, _, _, _)
\* faulty variant of WeekLoop: the loop does not break after the first record
WeekLoop_NoBreak(ticker, hist_data, week_data, i) ==
    IF i > Len(week_data) THEN [raised |-> FALSE, recs |-> <<>>]
    ELSE LET row == week_data[i]
             v == is_52_week_high([dated |-> TRUE, rows |-> hist_data],
                                  row.High, row.date, DefaultTol)
             rest == WeekLoop_NoBreak(ticker, hist_data, week_data, i + 1)
         IN  IF v[1]
             THEN IF row.Volume = NaN
                  THEN [raised |-> TRUE, recs |-> <<>>]
                  ELSE [raised |-> rest.raised,
                        recs |-> <<HighRecord(ticker, row, v[2], v[3])>> \o rest.recs]
             ELSE rest

RECURSIVE WeekLoop(_, _, _, _)
\* for date_idx, row in week_data.iterrows(), from row i on: the records
\* appended, and whether an exception left the loop (int() of a NaN Volume)
WeekLoop(ticker, hist_data, week_data, i) ==
    IF i > Len(week_data) THEN [raised |-> FALSE, recs |-> <<>>]
    ELSE LET row == week_data[i]
             v == is_52_week_high([dated |-> TRUE, rows |-> hist_data],
                                  row.High, row.date, DefaultTol)
         IN  IF v[1]
             THEN IF row.Volume = NaN
                  THEN [raised |-> TRUE, recs |-> <<>>]
                  ELSE [raised |-> FALSE,
                        recs |-> <<HighRecord(ticker, row, v[2], v[3])>>]
             ELSE WeekLoop(ticker, hist_data, week_data, i + 1)

\* faulty variant of TickerBody: a ticker without data is skipped without being counted
\* as an error
TickerBody_EmptyUncounted(ticker, s, wk) ==
    IF s.kind = "raise" THEN [error |-> TRUE, recs |-> <<>>]
    ELSE LET hist_data == history(s, wk[1] - HistBufferDays, wk[2] + 1)
             r == WeekLoop(ticker, hist_data, between(hist_data, wk[1], wk[2]), 1)
         IN  [error |-> r.raised, recs |-> r.recs]

\* the body of "for ticker in batch": what it appends to results and which
\* counter it increments
TickerBody(ticker, s, wk) ==
    IF s.kind = "raise" THEN [error |-> TRUE, recs |-> <<>>]
    ELSE LET hist_start == wk[1] - HistBufferDays
             hist_data == history(s, hist_start, wk[2] + 1)
         IN  IF Len(hist_data) = 0 THEN [error |-> TRUE, recs |-> <<>>]
             ELSE LET week_data == between(hist_data, wk[1], wk[2])
                      r == WeekLoop(ticker, hist_data, week_data, 1)
                  IN  [error |-> r.raised, recs |-> r.recs]

\* row order of sort_values(['Date', 'Stock'])
DateStockOrder(a, b) ==
    \/ a.Date < b.Date
    \/ a.Date = b.Date /\ a.Stock < b.Stock

\* faulty variant of SortedFrame: sorted by Stock only
SortedFrame_ByStock(rs) == SortSeq(rs, LAMBDA a, b : a.Stock < b.Stock)

\* pd.DataFrame(results).sort_values(['Date', 'Stock']).reset_index(drop=True),
\* or the empty frame
SortedFrame(rs) ==
    IF Len(rs) > 0 THEN SortSeq(rs, DateStockOrder) ELSE <<>>

ScanStocks == {Raises, Empty, Quiet, ThreeHighs, WedHigh, Young, Newborn,
               OldPeak, RecentPeak, NanVolume, FlatThenWed, FlatGapWed}

\* the tickers whose data varies; every other ticker is Fresh
ScanProbes == {10, 11}

ScanMarkets ==
    {[t \in nifty100_with_ns |-> IF t \in ScanProbes THEN f[t] ELSE Fresh] :
        f \in [ScanProbes -> ScanStocks]}

InitScan ==
    /\ pc = "scan_call"
    /\ today \in Today0 .. (Today0 + MaxScanSpan)
    /\ weeks_back \in 0 .. MaxScanWeeksBack
    /\ market \in ScanMarkets
    /\ week = None /\ ticker_data = None /\ current_high = 0 /\ check_date = 0
    /\ tolerance = 0 /\ verdict = None /\ idx = 0
    /\ results = <<>> /\ success_count = 0 /\ error_count = 0
    /\ results_df = None /\ threshold_percent = 0 /\ near_high_stocks = <<>>

\* lines 130-141: the week, the empty result list, the counters
ScanStart ==
    /\ pc = "scan_call"
    /\ week' = get_week_dates(today, weeks_back)
    /\ results' = <<>>
    /\ success_count' = 0
    /\ error_count' = 0
    /\ idx' = 0
    /\ pc' = "scan_loop"
    /\ UNCHANGED <<today, weeks_back, ticker_data, current_high, check_date,
                   tolerance, verdict, market, results_df, threshold_percent,
                   near_high_stocks>>

\* one iteration of "for ticker in batch"
ProcessTicker ==
    /\ pc = "scan_loop"
    /\ BatchTicker(idx) # None
    /\ LET ticker == BatchTicker(idx)
           out == TickerBody(ticker, market[ticker], week)
       IN  /\ results' = results \o out.recs
           /\ error_count' = IF out.error THEN error_count + 1 ELSE error_count
           /\ success_count' = IF out.error THEN success_count
                               ELSE success_count + 1
    /\ idx' = idx + 1
    /\ UNCHANGED <<pc, today, weeks_back, week, ticker_data, current_high,
                   check_date, tolerance, verdict, market, results_df,
                   threshold_percent, near_high_stocks>>

\* lines 210-234: the loops are over; the frame is built and returned
ScanFinish ==
    /\ pc = "scan_loop"
    /\ BatchTicker(idx) = None
    /\ results_df' = SortedFrame(results)
    /\ pc' = "scan_done"
    /\ UNCHANGED <<today, weeks_back, week, ticker_data, current_high,
                   check_date, tolerance, verdict, market, idx, results,
                   success_count, error_count, threshold_percent,
                   near_high_stocks>>

NextScan == ScanStart \/ ProcessTicker \/ ScanFinish

SpecScan == InitScan /\ [][NextScan]_vars

(***************************************************************************)
(* get_near_52w_high_stocks.  threshold_percent is in tenths of a percent  *)
(* and distance_percent <= threshold_percent is computed exactly,          *)
(* cross-multiplied by week_52_high.                                       *)
(***************************************************************************)
\* long history, the last close 5 percent below the high of the year
FivePercentOff == Series(400, FALSE, 0, 0, 0, <<9550, 9550, 9550, 9550, 9550>>, 9)

\* self.nifty100_with_ns[:20]
DemoTickers == 1 .. (IF DemoLimit < NumStocks THEN DemoLimit ELSE NumStocks)

\* stock.history(period="1y"): the bars of the 365 days up to today
history_1y(s, t) == history(s, t - 365, t + 1)

\* faulty variant of IsNear: the threshold itself is excluded
IsNear_Strict(current_price, week_52_high, threshold) ==
    (week_52_high - current_price) * 1000 < threshold * week_52_high

\* ((week_52_high - current_price) / week_52_high) * 100 <= threshold_percent
IsNear(current_price, week_52_high, threshold) ==
    (week_52_high - current_price) * 1000 <= threshold * week_52_high

\* the body of "for ticker in self.nifty100_with_ns[:20]": the records it
\* appends (the two derived percentages of the record are left out)
NearBody(ticker, s, t, threshold) ==
    IF s.kind = "raise" THEN <<>>
    ELSE LET hist_data == history_1y(s, t)
         IN  IF Len(hist_data) = 0 THEN <<>>
             ELSE LET current_price == hist_data[Len(hist_data)].Close
                      week_52_high == HighMax(hist_data)
                      week_52_low ==
                          -Max({-hist_data[i].Low : i \in DOMAIN hist_data})
                  IN  IF IsNear(current_price, week_52_high, threshold)
                      THEN <<[Stock |-> ticker,
                              Current_Price |-> current_price,
                              W52_High |-> week_52_high,
                              W52_Low |-> week_52_low]>>
                      ELSE <<>>

NearStocks == {Raises, Empty, ThreeHighs, RecentPeak, FivePercentOff, Fresh}

\* the tickers whose data varies; every other ticker is Fresh
NearProbes == {20, 21}

NearMarkets ==
    {[t \in nifty100_with_ns |-> IF t \in NearProbes THEN f[t] ELSE Fresh] :
        f \in [NearProbes -> NearStocks]}

\* the thresholds explored: 0.4, 4.9 and 5.0 percent
NearThresholds == {4, 49, 50}

InitNear ==
    /\ pc = "near_call"
    /\ today \in Today0 .. (Today0 + MaxScanSpan)
    /\ threshold_percent \in NearThresholds
    /\ market \in NearMarkets
    /\ weeks_back = 0 /\ week = None /\ ticker_data = None
    /\ current_high = 0 /\ check_date = 0 /\ tolerance = 0 /\ verdict = None
    /\ idx = 0 /\ results = <<>> /\ success_count = 0 /\ error_count = 0
    /\ results_df = None /\ near_high_stocks = <<>>

\* near_high_stocks = []
NearStart ==
    /\ pc = "near_call"
    /\ near_high_stocks' = <<>>
    /\ idx' = 0
    /\ pc' = "near_loop"
    /\ UNCHANGED <<today, weeks_back, week, ticker_data, current_high,
                   check_date, tolerance, verdict, market, results,
                   success_count, error_count, results_df, threshold_percent>>

\* one iteration of the loop
NearTicker ==
    /\ pc = "near_loop"
    /\ idx + 1 \in DemoTickers
    /\ near_high_stocks' = near_high_stocks \o
           NearBody(idx + 1, market[idx + 1], today, threshold_percent)
    /\ idx' = idx + 1
    /\ UNCHANGED <<pc, today, weeks_back, week, ticker_data, current_high,
                   check_date, tolerance, verdict, market, results,
                   success_count, error_count, results_df, threshold_percent>>

\* return pd.DataFrame(near_high_stocks)
NearFinish ==
    /\ pc = "near_loop"
    /\ idx + 1 \notin DemoTickers
    /\ pc' = "near_done"
    /\ UNCHANGED <<today, weeks_back, week, ticker_data, current_high,
                   check_date, tolerance, verdict, market, idx, results,
                   success_count, error_count, results_df, threshold_percent,
                   near_high_stocks>>

NextNear == NearStart \/ NearTicker \/ NearFinish

SpecNear == InitNear /\ [][NextNear]_vars

(***************************************************************************)
(* Claims about get_week_dates (SpecWeek).                                 *)
(***************************************************************************)
\* C6: for every today and weeks_back k >= 0 the returned start is a Monday,
\* it is the start returned for k + 1 plus 7 days, the start for k = 0 is
\* within the 6 days up to today, and the returned end is start + 4 days,
\* a Friday.
C6_WeekDates ==
    pc = "week_done" =>
        /\ weekday(week[1]) = 0
        /\ week[1] = get_week_dates(today, weeks_back + 1)[1] + 7
        /\ week[1] + 7 * weeks_back <= today
        /\ today <= week[1] + 7 * weeks_back + 6
        /\ week[2] = week[1] + 4
        /\ weekday(week[2]) = 4

\* C6 witness: a Sunday, looking three weeks back
C6_Witness ==
    /\ pc = "week_done"
    /\ weekday(today) = 6
    /\ weeks_back = 3
    /\ week[1] = today - 27

(***************************************************************************)
(* Claims about is_52_week_high (SpecDet).                                 *)
(***************************************************************************)
\* the rows of ticker_data dated within the 365 days up to check_date
InWindow ==
    {i \in DOMAIN ticker_data.rows :
        /\ ticker_data.rows[i].date >= check_date - 365
        /\ ticker_data.rows[i].date <= check_date}

Evaluable == ticker_data.dated /\ Cardinality(InWindow) >= 200

\* C4: with at least 200 bars in the baseline, is_high is true exactly when
\* current_high >= trailing_high * (1 - tolerance); a candidate that
\* qualifies at a tolerance qualifies at every larger one; a candidate
\* equal to the trailing high qualifies at tolerance 0.
C4_ToleranceRule ==
    (pc = "det_done" /\ Evaluable) =>
        /\ verdict[2] > 0
        /\ verdict[1] <=> ~(1000 * current_high < (1000 - tolerance) * verdict[2])
        /\ \A t \in tolerance .. (MaxTol + 1) :
              verdict[1] =>
                  is_52_week_high(ticker_data, current_high, check_date, t)[1]
        /\ (tolerance = 0 /\ current_high = verdict[2]) => verdict[1]

\* C4 witness: a candidate exactly on the edge of a non-zero tolerance band
C4_Witness ==
    /\ pc = "det_done" /\ Evaluable
    /\ tolerance > 0
    /\ 1000 * current_high = (1000 - tolerance) * verdict[2]
    /\ verdict[1]

\* C8: the reported trailing high is the maximum High over exactly the bars
\* with check_date - 365 <= date <= check_date, and the reported date is the
\* earliest date among the bars holding that maximum.
C8_TrailingBaseline ==
    (pc = "det_done" /\ Evaluable) =>
        LET rows == ticker_data.rows
        IN  /\ \A i \in InWindow : rows[i].High <= verdict[2]
            /\ \E i \in InWindow :
                  rows[i].High = verdict[2] /\ rows[i].date = verdict[3]
            /\ \A i \in InWindow :
                  rows[i].High = verdict[2] => verdict[3] <= rows[i].date

\* C8 witness: an older bar and a later bar are both above the reported
\* trailing high, and several bars of the window tie on it
C8_Witness ==
    /\ pc = "det_done" /\ Evaluable
    /\ LET rows == ticker_data.rows
       IN  /\ \E i \in DOMAIN rows :
                 rows[i].date < check_date - 365 /\ rows[i].High > verdict[2]
           /\ \E i \in DOMAIN rows :
                 rows[i].date > check_date /\ rows[i].High > verdict[2]
           /\ \E i, j \in InWindow :
                 i # j /\ rows[i].High = verdict[2] /\ rows[j].High = verdict[2]

(***************************************************************************)
(* Claims about scan_weekly_highs (SpecScan).                              *)
(***************************************************************************)
Scanning == pc \in {"scan_loop", "scan_done"}

\* what the provider returns for ticker t in the scan of the current week
FetchedFor(t, wk) == history(market[t], wk[1] - 400, wk[2] + 1)

\* the rows of hist dated within the week
WeekRowsOf(hist, wk) ==
    {i \in DOMAIN hist : hist[i].date >= wk[1] /\ hist[i].date <= wk[2]}

\* the rows of the week for which is_52_week_high returns true
QualifyingRows(hist, wk) ==
    {i \in WeekRowsOf(hist, wk) :
        is_52_week_high([dated |-> TRUE, rows |-> hist],
                        hist[i].High, hist[i].date, 1)[1]}

\* the rows of the week with fewer than 200 bars in their trailing window
ShortRows(hist, wk) ==
    {i \in WeekRowsOf(hist, wk) :
        Cardinality({j \in DOMAIN hist :
                        /\ hist[j].date >= hist[i].date - 365
                        /\ hist[j].date <= hist[i].date}) < 200}

RecordsOf(rs, t) == {i \in DOMAIN rs : rs[i].Stock = t}

Min(S) == CHOOSE x \in S : \A y \in S : x <= y

\* C1: every symbol has at most one result record, and the record of the
\* symbol processed last is dated on the earliest bar of the week for which
\* is_52_week_high returns true.
C1_FirstMatch ==
    Scanning =>
        /\ \A t \in 1 .. 100 : Cardinality(RecordsOf(results, t)) <= 1
        /\ idx > 0 =>
              LET hist == FetchedFor(idx, week)
                  q == QualifyingRows(hist, week)
              IN  \A i \in RecordsOf(results, idx) :
                      /\ q # {}
                      /\ results[i].Date = hist[Min(q)].date
                      /\ \A j \in q : results[i].Date <= hist[j].date

\* C1 witness: three days of the week qualify and the earliest is recorded
C1_Witness ==
    /\ pc = "scan_loop" /\ idx > 0
    /\ LET hist == FetchedFor(idx, week)
           q == QualifyingRows(hist, week)
       IN  /\ Cardinality(q) >= 3
           /\ \E i \in RecordsOf(results, idx) :
                 results[i].Date = hist[Min(q)].date

\* C3: when the next symbol is processed, every bar of its week with fewer
\* than 200 bars in [date - 365, date] gets (False, None, None) from
\* is_52_week_high and no record; the later bars are still evaluated (the
\* first qualifying one is recorded) and the symbol is not counted as an
\* error on account of the skipped bars.
C3_InsufficientHistory ==
    [][(pc = "scan_loop" /\ idx' = idx + 1) =>
        LET t == idx + 1
            hist == FetchedFor(t, week)
            q == QualifyingRows(hist, week)
        IN  /\ \A i \in ShortRows(hist, week) :
                  /\ is_52_week_high([dated |-> TRUE, rows |-> hist],
                                     hist[i].High, hist[i].date, 1)
                         = <<FALSE, None, None>>
                  /\ \A k \in RecordsOf(results', t) :
                         results'[k].Date # hist[i].date
            /\ (ShortRows(hist, week) # {} /\ q # {}
                    /\ hist[Min(q)].Volume # NaN) =>
                  /\ \E k \in RecordsOf(results', t) :
                         results'[k].Date = hist[Min(q)].date
                  /\ success_count' = success_count + 1
            /\ (ShortRows(hist, week) # {} /\ q = {}) =>
                  /\ results' = results
                  /\ success_count' = success_count + 1
                  /\ error_count' = error_count]_vars

\* C3 witness: the symbol processed last has a Monday with fewer than 200
\* bars whose high is the maximum of all its data, and a record on a later
\* day of the week
C3_Witness ==
    /\ pc = "scan_loop" /\ idx > 0
    /\ LET hist == FetchedFor(idx, week)
       IN  \E i \in ShortRows(hist, week) :
              /\ \A j \in DOMAIN hist : hist[j].High <= hist[i].High
              /\ \E k \in RecordsOf(results, idx) :
                    results[k].Date > hist[i].date

\* whether the processing of ticker t fails: the fetch raises, returns no
\* bars, or the first qualifying bar of the week has a NaN Volume
Fails(t, wk) ==
    \/ market[t].kind = "raise"
    \/ LET hist == FetchedFor(t, wk)
           q == QualifyingRows(hist, wk)
       IN  \/ Len(hist) = 0
           \/ q # {} /\ hist[Min(q)].Volume = NaN

\* C5: a symbol whose fetch returns no bars or whose processing raises adds
\* one to error_count and nothing to results, and the scan goes on to the
\* next symbol; any other symbol adds one to success_count; on completion
\* success_count + error_count is the size of the universe.
C5_FailureIsolation ==
    /\ [](Scanning => success_count + error_count = idx)
    /\ [](pc = "scan_done" => success_count + error_count = 100)
    /\ [][(pc = "scan_loop" /\ idx < 100) =>
            /\ pc' = "scan_loop"
            /\ idx' = idx + 1
            /\ IF Fails(idx + 1, week)
               THEN /\ error_count' = error_count + 1
                    /\ success_count' = success_count
                    /\ results' = results
               ELSE /\ error_count' = error_count
                    /\ success_count' = success_count + 1]_vars

\* C5 witness: the scan has completed although the fetch raised for one
\* symbol and the processing of the next one raised on a NaN Volume
C5_Witness ==
    /\ pc = "scan_done"
    /\ error_count = 2
    /\ success_count = 98
    /\ market[10].kind = "raise"
    /\ market[11] = NanVolume
    /\ weeks_back = 0

\* C9: the returned frame is sorted by Date ascending, then Stock ascending,
\* holds exactly the collected records, and is empty when none was collected.
C9_ResultOrder ==
    pc = "scan_done" =>
        /\ \A i, j \in DOMAIN results_df :
              i < j =>
                  \/ results_df[i].Date < results_df[j].Date
                  \/ /\ results_df[i].Date = results_df[j].Date
                     /\ results_df[i].Stock < results_df[j].Stock
        /\ Len(results_df) = Len(results)
        /\ {results_df[i] : i \in DOMAIN results_df}
               = {results[i] : i \in DOMAIN results}
        /\ results = <<>> => results_df = <<>>

\* C9 witness: the records were collected in an order that is not the order
\* of their dates
C9_Witness ==
    /\ pc = "scan_done"
    /\ Len(results) = 2
    /\ results[1].Date > results[2].Date
    /\ results_df[1] = results[2]

\* C10: every record has 52W_High >= High, 0 <= Days_Since_Prev_High <= 365
\* and New_High = "Matched".
C10_NeverNew ==
    Scanning =>
        \A i \in DOMAIN results :
            /\ results[i].W52_High >= results[i].High
            /\ results[i].Days_Since_Prev_High >= 0
            /\ results[i].Days_Since_Prev_High <= 365
            /\ results[i].New_High = "Matched"

\* C10 witness: a day whose high is above the high of every earlier bar is
\* recorded as "Matched", its own high being the 52-week high
C10_Witness ==
    /\ pc = "scan_loop" /\ idx > 0
    /\ LET hist == FetchedFor(idx, week)
       IN  \E k \in RecordsOf(results, idx) :
              /\ results[k].New_High = "Matched"
              /\ results[k].W52_High = results[k].High
              /\ results[k].Days_Since_Prev_High = 0
              /\ \A j \in DOMAIN hist :
                    hist[j].date < results[k].Date =>
                        hist[j].High < results[k].High

\* C2: for a symbol whose highs are flat at 100.00 for 300 days, then 105.00
\* on the Wednesday of the target week (its first bar of the week) and
\* 102.00 on Thursday, the scan returns exactly one record, dated Wednesday,
\* with 52W_High = 100.00, New_High = "Yes" and Previous_High_Date the
\* earliest bar tied at 100.00.
C2_Scenario ==
    (pc = "scan_done" /\ week[1] = Anchor) =>
        \A t \in 1 .. 100 :
            market[t] = FlatGapWed =>
                /\ Cardinality(RecordsOf(results_df, t)) = 1
                /\ \A k \in RecordsOf(results_df, t) :
                      /\ results_df[k].Date = Anchor + 2
                      /\ results_df[k].High = 10500
                      /\ results_df[k].W52_High = 10000
                      /\ results_df[k].New_High = "Yes"
                      /\ results_df[k].Previous_High_Date
                             = Anchor - market[t].listed

(***************************************************************************)
(* Claims about get_near_52w_high_stocks (SpecNear).                       *)
(***************************************************************************)
\* the last close and the highest High of what the provider returns for t
LastClose(t) ==
    LET h == history(market[t], today - 365, today + 1) IN h[Len(h)].Close

YearHigh(t) ==
    LET h == history(market[t], today - 365, today + 1)
    IN  Max({h[i].High : i \in DOMAIN h})

HasData(t) ==
    market[t].kind # "raise" /\ Len(history(market[t], today - 365, today + 1)) > 0

\* (week_52_high - current_price) / week_52_high * 100 <= threshold_percent,
\* with threshold_percent in tenths of a percent
WithinThreshold(t) ==
    ~((YearHigh(t) - LastClose(t)) * 1000 > threshold_percent * YearHigh(t))

Included(t) == \E i \in DOMAIN near_high_stocks : near_high_stocks[i].Stock = t

\* C7 as stated: every symbol of the universe that has data is included in
\* the result exactly when its distance from the high is within the threshold.
C7_WholeUniverse ==
    pc = "near_done" =>
        \A t \in 1 .. 100 : HasData(t) => (Included(t) <=> WithinThreshold(t))

\* C7 as amended: every symbol among the first 20 of the universe that has
\* data is included exactly when its distance from the high is within the
\* threshold; no other symbol is ever included.
C7_FirstTwenty ==
    pc = "near_done" =>
        /\ \A t \in 1 .. 20 : HasData(t) => (Included(t) <=> WithinThreshold(t))
        /\ \A t \in 1 .. 100 : Included(t) => (t <= 20 /\ HasData(t))

\* C7 witness: price 95.00 under a high of 100.00 is included at 5 percent
C7_Witness ==
    /\ pc = "near_done"
    /\ threshold_percent = 50
    /\ HasData(20)
    /\ LastClose(20) = 9500
    /\ YearHigh(20) = 10000
    /\ Included(20)

====
